---- MODULE Spec2Model ----
(***************************************************************************)
(* A model of the PA Audio Analyzer (pa_analyzer_integrated.py and         *)
(* auth_system.py): the recommendation engine generate_recommendations,    *)
(* the AudioAnalyzer extractors with their band filter, the analysis run   *)
(* of show_upload_section, the accounts of UserDatabase, the per-user      *)
(* files of UserAudioDatabase and the pages main() dispatches to.          *)
(*                                                                         *)
(* Decibel values of a mix descriptor are floats in the program; here they *)
(* are integers counted in steps of 1/Scale dB (per cent for the stereo    *)
(* width), so that values strictly between two integer thresholds exist.   *)
(***************************************************************************)
EXTENDS Integers, Sequences, FiniteSets, TLC

VARIABLES
    analysis_result,     \* st.session_state.analysis_result (a mix descriptor)
    analysis_metadata,   \* st.session_state.analysis_metadata
    recommendations,     \* what generate_recommendations last returned
    last_call,           \* history: the latest call of generate_recommendations
    prev_call,           \* history: the call before that
    audio_db,            \* UserAudioDatabase: the files of user_audio_data, by stem
    users,               \* UserDatabase.users, as saved in users.json
    authenticated,       \* st.session_state.authenticated
    user,                \* st.session_state.user
    page,                \* st.session_state.page
    rendered,            \* the pages the last script run rendered
    now,                 \* the wall clock, in ticks
    y,                   \* AudioAnalyzer.y: the loaded buffer, one sequence per channel
    sr,                  \* AudioAnalyzer.sr
    duration,            \* AudioAnalyzer.duration, in samples
    loaded,              \* history: what load_audio produced
    earlier,             \* history: what the extractor call before the last delivered
    pc,                  \* where the running operation stands
    computed,            \* the features evaluated so far in the running analysis
    outcome              \* what the last operation delivered to its caller

vars == <<analysis_result, analysis_metadata, recommendations, last_call,
          prev_call, audio_db, users, authenticated, user, page, rendered, now,
          y, sr, duration, loaded, earlier, pc, computed, outcome>>

accountVars == <<users, authenticated, user, page, rendered, now>>
sessionVars == <<analysis_result, analysis_metadata, recommendations,
                 last_call, prev_call, audio_db, users, authenticated, user,
                 page, rendered, now>>
bufferVars == <<y, sr, duration, loaded>>
analyzerVars == <<y, sr, duration, loaded, earlier, pc, computed, outcome>>

-----------------------------------------------------------------------------
(* Bounds of the model *)

\* the samples of one analysis frame and the samples between the starts of two
\* frames: librosa's 2048 and 512, scaled down so that a buffer of MaxLen
\* samples spans several frames that differ
FrameLength == 2
HopLength == 1
\* an RMS amplitude is kept to 1/SqrtScale of the unit of the doubled downmix
SqrtScale == 16
\* the clock ticks of one second (an entry's id is its second) and the last tick
TicksPerSecond == 2
MaxTime == 3
\* steps per dB (per cent) of the descriptor values
Scale == 2
\* how many steps around every threshold the descriptor values cover
Margin == 1
\* the most analyses the store of one user holds
MaxStored == 1
\* the longest sample buffer
MaxLen == 2

-----------------------------------------------------------------------------
(* The thresholds of generate_recommendations *)

RmsCriticalLow == -23
RmsCriticalHigh == -14
RmsGoodLow == -20
RmsGoodHigh == -16
PeakCriticalHigh == -1
PeakImportantLow == -6
CrestImportantLow == 8
CrestImportantHigh == 16
CrestGoodLow == 10
CrestGoodHigh == 14
WidthImportantLow == 30
WidthImportantHigh == 80
WidthGoodLow == 50
WidthGoodHigh == 70

\* a program threshold of t dB, in steps
T(t) == t * Scale

\* f"{v:.1f}": the value in tenths, rounded to the nearest
Fmt1(v) == (20 * v + Scale) \div (2 * Scale)

\* one advisory message: the metric it is about, which rule produced it, and
\* the number its text shows
Message(metric, rule, v) == [metric |-> metric, rule |-> rule, shown |-> Fmt1(v)]

EmptyRecommendations == [critical |-> <<>>, important |-> <<>>, good_points |-> <<>>]

AppendTo(rec, list, msg) == [rec EXCEPT ![list] = Append(@, msg)]

CheckRmsShifted(rec, rms) ==
    IF rms <= T(RmsCriticalLow) THEN AppendTo(rec, "critical", Message("rms", "low", rms))
    ELSE IF rms > T(RmsCriticalHigh) THEN AppendTo(rec, "critical", Message("rms", "high", rms))
    ELSE IF T(RmsGoodLow) < rms /\ rms < T(RmsGoodHigh)
         THEN AppendTo(rec, "good_points", Message("rms", "good", rms))
    ELSE rec

\* the rms check
CheckRms(rec, rms) ==
    IF rms < T(RmsCriticalLow) THEN AppendTo(rec, "critical", Message("rms", "low", rms))
    ELSE IF rms > T(RmsCriticalHigh) THEN AppendTo(rec, "critical", Message("rms", "high", rms))
    ELSE IF T(RmsGoodLow) <= rms /\ rms <= T(RmsGoodHigh)
         THEN AppendTo(rec, "good_points", Message("rms", "good", rms))
    ELSE rec

CheckPeakShifted(rec, peak) ==
    IF peak >= T(PeakCriticalHigh) THEN AppendTo(rec, "critical", Message("peak", "high", peak))
    ELSE IF peak <= T(PeakImportantLow) THEN AppendTo(rec, "important", Message("peak", "low", peak))
    ELSE AppendTo(rec, "good_points", Message("peak", "good", peak))

\* the peak check
CheckPeak(rec, peak) ==
    IF peak > T(PeakCriticalHigh) THEN AppendTo(rec, "critical", Message("peak", "high", peak))
    ELSE IF peak < T(PeakImportantLow) THEN AppendTo(rec, "important", Message("peak", "low", peak))
    ELSE rec

CheckCrestShifted(rec, cf) ==
    IF cf <= T(CrestImportantLow) THEN AppendTo(rec, "important", Message("crest_factor", "low", cf))
    ELSE IF cf >= T(CrestImportantHigh) THEN AppendTo(rec, "important", Message("crest_factor", "high", cf))
    ELSE IF T(CrestGoodLow) < cf /\ cf < T(CrestGoodHigh)
         THEN AppendTo(rec, "good_points", Message("crest_factor", "good", cf))
    ELSE rec

\* the crest factor check
CheckCrest(rec, cf) ==
    IF cf < T(CrestImportantLow) THEN AppendTo(rec, "important", Message("crest_factor", "low", cf))
    ELSE IF cf > T(CrestImportantHigh) THEN AppendTo(rec, "important", Message("crest_factor", "high", cf))
    ELSE IF T(CrestGoodLow) <= cf /\ cf <= T(CrestGoodHigh)
         THEN AppendTo(rec, "good_points", Message("crest_factor", "good", cf))
    ELSE rec

CheckWidthShifted(rec, width) ==
    IF width <= T(WidthImportantLow) THEN AppendTo(rec, "important", Message("stereo_width", "low", width))
    ELSE IF width >= T(WidthImportantHigh) THEN AppendTo(rec, "important", Message("stereo_width", "high", width))
    ELSE IF T(WidthGoodLow) < width /\ width < T(WidthGoodHigh)
         THEN AppendTo(rec, "good_points", Message("stereo_width", "good", width))
    ELSE rec

\* the stereo width check
CheckWidth(rec, width) ==
    IF width < T(WidthImportantLow) THEN AppendTo(rec, "important", Message("stereo_width", "low", width))
    ELSE IF width > T(WidthImportantHigh) THEN AppendTo(rec, "important", Message("stereo_width", "high", width))
    ELSE IF T(WidthGoodLow) <= width /\ width <= T(WidthGoodHigh)
         THEN AppendTo(rec, "good_points", Message("stereo_width", "good", width))
    ELSE rec

\* generate_recommendations with the width check before the others
GenerateWidthFirst(analysis_data, metadata) ==
    LET r1 == CheckWidth(EmptyRecommendations, analysis_data.stereo_width)
        r2 == CheckRms(r1, analysis_data.rms_db)
        r3 == CheckPeak(r2, analysis_data.peak_db)
        r4 == CheckCrest(r3, analysis_data.crest_factor)
    IN  [ret |-> r4, analysis_data |-> analysis_data, metadata |-> metadata]

\* generate_recommendations reading the venue capacity and clearing the notes
GenerateImpure(analysis_data, metadata) ==
    LET r1 == CheckRms(EmptyRecommendations,
                       analysis_data.rms_db + metadata.venue_capacity)
        r2 == CheckPeak(r1, analysis_data.peak_db)
        r3 == CheckCrest(r2, analysis_data.crest_factor)
        r4 == CheckWidth(r3, analysis_data.stereo_width)
    IN  [ret |-> r4, analysis_data |-> analysis_data,
         metadata |-> [metadata EXCEPT !.notes = ""]]

\* generate_recommendations(analysis_data, metadata): what it returns and what
\* it leaves in the two dictionaries it was handed
generate_recommendations(analysis_data, metadata) ==
    LET r1 == CheckRms(EmptyRecommendations, analysis_data.rms_db)
        r2 == CheckPeak(r1, analysis_data.peak_db)
        r3 == CheckCrest(r2, analysis_data.crest_factor)
        r4 == CheckWidth(r3, analysis_data.stereo_width)
    IN  [ret |-> r4, analysis_data |-> analysis_data, metadata |-> metadata]

-----------------------------------------------------------------------------
(* The descriptors and metadata the recommendation engine is applied to *)

\* the values within Margin steps of a threshold; the sets below add the
\* values of the documented scenarios
Near(thresholds) == {T(t) + d : t \in thresholds, d \in -Margin..Margin}

RmsValues ==
    Near({RmsCriticalLow, RmsCriticalHigh, RmsGoodLow, RmsGoodHigh})
        \cup {T(-25), T(-22), T(-18)}
PeakValues == Near({PeakCriticalHigh, PeakImportantLow}) \cup {T(-3)}
CrestValues ==
    Near({CrestImportantLow, CrestImportantHigh, CrestGoodLow, CrestGoodHigh}) \cup {T(6)}
WidthValues ==
    Near({WidthImportantLow, WidthImportantHigh, WidthGoodLow, WidthGoodHigh}) \cup {T(20)}

Descriptors ==
    [rms_db : RmsValues, peak_db : PeakValues,
     crest_factor : CrestValues, stereo_width : WidthValues]

\* one value of every class of every metric, for the runs that compare calls
FewDescriptors ==
    [rms_db : {T(-25), T(-18)}, peak_db : {T(-3), T(0)},
     crest_factor : {T(6), T(12)}, stereo_width : {T(60)}]

DefaultMetadata == [venue_capacity |-> 150, notes |-> ""]
Metadatas == {DefaultMetadata, [venue_capacity |-> 10, notes |-> "memo"]}

NoCall == [made |-> FALSE]

\* Python's None
None == [none |-> TRUE]

\* init_session_state: nobody is logged in; no user database is open
AccountIdle ==
    /\ users = <<>>
    /\ authenticated = FALSE
    /\ user = None
    /\ page = "login"
    /\ rendered = {}
    /\ now = 0

\* the entries of the file with this stem; a missing file reads as empty
ReadFile(db, stem) == IF stem \in DOMAIN db THEN db[stem] ELSE <<>>

\* the directory after this file is written
WriteFile(db, stem, entries) ==
    [s \in DOMAIN db \cup {stem} |-> IF s = stem THEN entries ELSE db[s]]

-----------------------------------------------------------------------------
(* show_recommendations: the page that calls the recommendation engine *)

show_recommendations ==
    /\ pc \in {"ready", "shown"}
    /\ LET call == generate_recommendations(analysis_result, analysis_metadata)
       IN  /\ recommendations' = call.ret
           /\ analysis_result' = call.analysis_data
           /\ analysis_metadata' = call.metadata
           /\ last_call' = [made |-> TRUE, analysis_data |-> analysis_result,
                            metadata |-> analysis_metadata, ret |-> call.ret]
           /\ prev_call' = last_call
    /\ pc' = "shown"
    /\ UNCHANGED <<audio_db, computed, outcome, earlier>>
    /\ UNCHANGED bufferVars
    /\ UNCHANGED accountVars

\* the analyzer's variables while only the recommendation engine runs
AnalyzerIdle ==
    /\ y = <<>>
    /\ sr = 0
    /\ duration = 0
    /\ loaded = [y |-> <<>>, sr |-> 0, duration |-> 0]
    /\ earlier = [op |-> "none"]
    /\ computed = {}
    /\ outcome = [op |-> "none"]

\* the engine applied once to every descriptor
InitRec ==
    /\ analysis_result \in Descriptors
    /\ analysis_metadata = DefaultMetadata
    /\ recommendations = EmptyRecommendations
    /\ last_call = NoCall
    /\ prev_call = NoCall
    /\ audio_db = <<>>
    /\ pc = "ready"
    /\ AnalyzerIdle
    /\ AccountIdle

NextRec == show_recommendations /\ pc = "ready"

SpecRec == InitRec /\ [][NextRec]_vars

-----------------------------------------------------------------------------
(* Claims about the recommendation engine *)

Shown == pc = "shown"

\* whether list holds a message about metric
HasMsg(list, metric) ==
    \E i \in DOMAIN recommendations[list] : recommendations[list][i].metric = metric

\* how many messages about metric the three lists hold together
MsgCount(metric) ==
    Cardinality({p \in {"critical", "important", "good_points"} \X (1..4) :
                   /\ p[2] \in DOMAIN recommendations[p[1]]
                   /\ recommendations[p[1]][p[2]].metric = metric})

MetricIndex(metric) ==
    CASE metric = "rms" -> 1
      [] metric = "peak" -> 2
      [] metric = "crest_factor" -> 3
      [] metric = "stereo_width" -> 4

InMetricOrder(list) ==
    \A i, j \in DOMAIN list :
        i < j => MetricIndex(list[i].metric) < MetricIndex(list[j].metric)

\* C1: the rms message is critical iff rms_db < -23 or rms_db > -14, good iff
\* -20 <= rms_db <= -16 (both inclusive), and there is no rms message otherwise
C1_RmsClassification ==
    Shown =>
        LET rms == analysis_result.rms_db
        IN  /\ HasMsg("critical", "rms") <=> (rms < T(-23) \/ rms > T(-14))
            /\ HasMsg("good_points", "rms") <=> (T(-20) <= rms /\ rms <= T(-16))
            /\ ~HasMsg("important", "rms")
            /\ MsgCount("rms") <= 1

\* rms_db = -22 lies in the gap and yields no rms message
C1_Witness ==
    /\ Shown
    /\ analysis_result.rms_db = T(-22)
    /\ MsgCount("rms") = 0

\* C2: the peak message is critical iff peak_db > -1, important iff peak_db < -6,
\* absent when -6 <= peak_db <= -1, and never in the good list
C2_PeakClassification ==
    Shown =>
        LET peak == analysis_result.peak_db
        IN  /\ HasMsg("critical", "peak") <=> peak > T(-1)
            /\ HasMsg("important", "peak") <=> peak < T(-6)
            /\ ~HasMsg("good_points", "peak")
            /\ MsgCount("peak") <= 1

\* peak_db = -6 is on the boundary and yields no peak message
C2_Witness ==
    /\ Shown
    /\ analysis_result.peak_db = T(-6)
    /\ MsgCount("peak") = 0

\* C3: the crest factor message is important iff the value is < 8 or > 16, good
\* iff 10 <= value <= 14, absent otherwise, and never critical
C3_CrestClassification ==
    Shown =>
        LET cf == analysis_result.crest_factor
        IN  /\ HasMsg("important", "crest_factor") <=> (cf < T(8) \/ cf > T(16))
            /\ HasMsg("good_points", "crest_factor") <=> (T(10) <= cf /\ cf <= T(14))
            /\ ~HasMsg("critical", "crest_factor")
            /\ MsgCount("crest_factor") <= 1

\* a crest factor of exactly 14 is good
C3_Witness ==
    /\ Shown
    /\ analysis_result.crest_factor = T(14)
    /\ HasMsg("good_points", "crest_factor")

\* C4: the stereo width message is important iff the value is < 30 or > 80, good
\* iff 50 <= value <= 70, absent otherwise, and never critical
C4_WidthClassification ==
    Shown =>
        LET width == analysis_result.stereo_width
        IN  /\ HasMsg("important", "stereo_width") <=> (width < T(30) \/ width > T(80))
            /\ HasMsg("good_points", "stereo_width") <=> (T(50) <= width /\ width <= T(70))
            /\ ~HasMsg("critical", "stereo_width")
            /\ MsgCount("stereo_width") <= 1

\* a stereo width of exactly 80 yields no width message
C4_Witness ==
    /\ Shown
    /\ analysis_result.stereo_width = T(80)
    /\ MsgCount("stereo_width") = 0

ScenarioC ==
    [rms_db |-> T(-25), peak_db |-> T(-3), crest_factor |-> T(6), stereo_width |-> T(20)]

\* C5: at most one message per metric, at most four in all, every list in the
\* order rms, peak, crest factor, stereo width; and the descriptor rms_db=-25,
\* peak_db=-3, crest_factor=6, stereo_width=20 yields one critical (low rms),
\* two important (low crest, then narrow width), no peak message, nothing good
C5_OneMessagePerMetricInOrder ==
    Shown =>
        /\ \A m \in {"rms", "peak", "crest_factor", "stereo_width"} : MsgCount(m) <= 1
        /\ Len(recommendations.critical) + Len(recommendations.important)
             + Len(recommendations.good_points) <= 4
        /\ InMetricOrder(recommendations.critical)
        /\ InMetricOrder(recommendations.important)
        /\ InMetricOrder(recommendations.good_points)
        /\ analysis_result = ScenarioC =>
             /\ recommendations.critical = <<Message("rms", "low", T(-25))>>
             /\ recommendations.important =
                  <<Message("crest_factor", "low", T(6)),
                    Message("stereo_width", "low", T(20))>>
             /\ recommendations.good_points = <<>>

\* the scenario's descriptor has been classified
C5_Witness ==
    /\ Shown
    /\ analysis_result = ScenarioC
    /\ Len(recommendations.important) = 2

-----------------------------------------------------------------------------
(* Calls of the recommendation engine between analysis runs *)

\* the file of the one user of this session
SessionStem == <<"user", "_", "at", "_", "example", "_", "com">>

\* the end of a run in show_upload_section: the result and its metadata go to
\* the session and one entry is appended to the user's store
StoreRun ==
    /\ Len(ReadFile(audio_db, SessionStem)) < MaxStored
    /\ \E d \in FewDescriptors, md \in Metadatas :
         /\ analysis_result' = d
         /\ analysis_metadata' = md
         /\ audio_db' = WriteFile(audio_db, SessionStem,
                                  Append(ReadFile(audio_db, SessionStem),
                                         [metadata |-> md, analysis |-> d]))
    /\ pc' = "ready"
    /\ UNCHANGED <<recommendations, last_call, prev_call, computed, outcome, earlier>>
    /\ UNCHANGED bufferVars
    /\ UNCHANGED accountVars

InitPure ==
    /\ analysis_result \in FewDescriptors
    /\ analysis_metadata \in Metadatas
    /\ recommendations = EmptyRecommendations
    /\ last_call = NoCall
    /\ prev_call = NoCall
    /\ audio_db = <<>>
    /\ pc = "ready"
    /\ AnalyzerIdle
    /\ AccountIdle

NextPure == show_recommendations \/ StoreRun

SpecPure == InitPure /\ [][NextPure]_vars

\* two recorded calls with the same descriptor returned the same lists
SameDescriptorSameLists ==
    (prev_call.made /\ last_call.made
        /\ prev_call.analysis_data = last_call.analysis_data)
    => prev_call.ret = last_call.ret

\* C6: two calls of generate_recommendations with an identical descriptor, in
\* any state and with any metadata, return identical, identically ordered
\* lists, and a call leaves the descriptor, the metadata, the stored analyses
\* and the analyzer unchanged
C6_PureOrderStable ==
    /\ []SameDescriptorSameLists
    /\ [][show_recommendations =>
            UNCHANGED <<analysis_result, analysis_metadata, audio_db,
                        y, sr, duration, computed, outcome>>]_vars

\* two calls with one descriptor and different metadata, around a stored run
C6_Witness ==
    /\ prev_call.made
    /\ last_call.made
    /\ prev_call.analysis_data = last_call.analysis_data
    /\ prev_call.metadata # last_call.metadata
    /\ Len(last_call.ret.critical) > 0
    /\ Len(ReadFile(audio_db, SessionStem)) > 0

-----------------------------------------------------------------------------
(* AudioAnalyzer: samples, decibels and the band filter                    *)
(*                                                                         *)
(* A sample is -1, 0 or 1 (full scale is 1.0).  The mono downmix           *)
(* mean(y, axis=0) is kept doubled, as L + R, so that it stays an integer; *)
(* MonoUnit is the square of that factor.                                  *)

Samples == -1..1
SampleSeqs == UNION {[1..n -> Samples] : n \in 0..MaxLen}

\* a decoded file: one or two channels of equal length, or one librosa cannot read
AudioFiles ==
    {[readable |-> TRUE, channels |-> <<s>>] : s \in SampleSeqs}
    \cup UNION {{[readable |-> TRUE, channels |-> <<l, r>>] :
                    r \in [DOMAIN l -> Samples]} : l \in SampleSeqs}
    \cup {[readable |-> FALSE, channels |-> <<>>]}

\* the default of AudioAnalyzer's sr argument, and a lower rate a caller may ask for
SampleRates == {16000, 44100}

MonoUnit == 4
DbFloor == -200

RECURSIVE SumSq(_)
SumSq(a) == IF a = <<>> THEN 0 ELSE a[1] * a[1] + SumSq(Tail(a))

Abs(x) == IF x < 0 THEN -x ELSE x

RECURSIVE MaxAbs(_)
MaxAbs(a) ==
    IF Len(a) = 1 THEN Abs(a[1])
    ELSE LET m == MaxAbs(Tail(a)) IN IF Abs(a[1]) > m THEN Abs(a[1]) ELSE m

RECURSIVE Log2Floor(_)
Log2Floor(n) == IF n < 2 THEN 0 ELSE 1 + Log2Floor(n \div 2)

RECURSIVE Log2Ceil(_, _)
\* the least k with num * 2^k >= den
Log2Ceil(num, den) == IF num >= den THEN 0 ELSE 1 + Log2Ceil(2 * num, den)

\* the decibel value with an epsilon of 1e-5, whose floor is -100 dB
DbPowerHighFloor(num, den) ==
    IF num = 0 THEN T(-100)
    ELSE IF num >= den THEN T(3) * Log2Floor(num \div den)
    ELSE -(T(3) * Log2Ceil(num, den))

\* 10 * log10(num / den + epsilon) in steps, to the 3 dB of one octave of power;
\* a power of zero gives the floor 20 * log10(1e-10) = -200 dB
DbPower(num, den) ==
    IF num = 0 THEN T(DbFloor)
    ELSE IF num >= den THEN T(3) * Log2Floor(num \div den)
    ELSE -(T(3) * Log2Ceil(num, den))

\* mono = np.mean(self.y, axis=0), doubled
Mono2 == [i \in DOMAIN y[1] |-> y[1][i] + y[2][i]]

\* audio * 0
Times0(audio) == [i \in DOMAIN audio |-> audio[i] * 0]

\* signal.sosfilt(signal.butter(4, [low_norm, high_norm], ...), audio): scipy's
\* filter is stood for by a causal linear filter with zero initial state that
\* keeps the length (a first difference)
SosFilt(audio) ==
    [i \in DOMAIN audio |-> audio[i] - (IF i > 1 THEN audio[i - 1] ELSE 0)]

\* np.clip(f / nyq, 0.001, 0.999), counted in 1/(1000 * sr) so that it stays exact
ClipNorm(f) ==
    LET v == 2000 * f
    IN  IF v < sr THEN sr ELSE IF v > 999 * sr THEN 999 * sr ELSE v

\* bandpass_filter returning its input where the window is degenerate
BandpassPassThrough(audio, low, high, fault) ==
    IF ClipNorm(low) >= ClipNorm(high)
    THEN [kind |-> "returned", value |-> audio, status |-> "degenerate"]
    ELSE IF fault
    THEN [kind |-> "returned", value |-> Times0(audio), status |-> "failed"]
    ELSE [kind |-> "returned", value |-> SosFilt(audio), status |-> "filtered"]

\* bandpass_filter without its try / except
BandpassNoCatch(audio, low, high, fault) ==
    IF ClipNorm(low) >= ClipNorm(high)
    THEN [kind |-> "returned", value |-> Times0(audio), status |-> "degenerate"]
    ELSE IF fault
    THEN [kind |-> "raised", value |-> <<>>, status |-> "failed"]
    ELSE [kind |-> "returned", value |-> SosFilt(audio), status |-> "filtered"]

\* bandpass_filter(audio, low, high); fault says that scipy's design or
\* application of the filter raises.  status records which branch returned
bandpass_filter(audio, low, high, fault) ==
    IF ClipNorm(low) >= ClipNorm(high)
    THEN [kind |-> "returned", value |-> Times0(audio), status |-> "degenerate"]
    ELSE IF fault
    THEN [kind |-> "returned", value |-> Times0(audio), status |-> "failed"]
    ELSE [kind |-> "returned", value |-> SosFilt(audio), status |-> "filtered"]

\* the seven bands of calculate_band_energies
Bands ==
    <<[name |-> "sub_bass", low |-> 20, high |-> 60],
      [name |-> "bass", low |-> 60, high |-> 250],
      [name |-> "low_mid", low |-> 250, high |-> 500],
      [name |-> "mid", low |-> 500, high |-> 2000],
      [name |-> "high_mid", low |-> 2000, high |-> 4000],
      [name |-> "presence", low |-> 4000, high |-> 8000],
      [name |-> "brilliance", low |-> 8000, high |-> 20000]>>

BandNames == {Bands[i].name : i \in DOMAIN Bands}
BandOf(name) == CHOOSE b \in {Bands[i] : i \in DOMAIN Bands} : b.name = name

\* the instrument windows of show_upload_section
Instruments ==
    <<[key |-> "vocals", low |-> 200, high |-> 4000],
      [key |-> "kick", low |-> 40, high |-> 100],
      [key |-> "snare", low |-> 150, high |-> 250],
      [key |-> "bass", low |-> 60, high |-> 250],
      [key |-> "guitar", low |-> 200, high |-> 5000]>>

\* the windows the filter and analyze_instrument are called with: the tables'
\* own, an inverted one, an empty one, and ones beyond either clipping edge
Windows ==
    {<<Bands[i].low, Bands[i].high>> : i \in DOMAIN Bands}
    \cup {<<Instruments[i].low, Instruments[i].high>> : i \in DOMAIN Instruments}
    \cup {<<100, 50>>, <<100, 100>>, <<22050, 30000>>, <<2, 5>>}

\* the filtered signal of one band, with the branch that produced it
FilteredBand(audio, name, faulty) ==
    bandpass_filter(audio, BandOf(name).low, BandOf(name).high, name \in faulty)

\* the filtered signal of every band
FilteredBands(audio, faulty) ==
    [name \in BandNames |-> FilteredBand(audio, name, faulty)]

\* calculate_band_energies(audio) for a non-empty audio: the energy of every band
calculate_band_energies(audio, faulty) ==
    [name \in BandNames |->
        DbPower(SumSq(FilteredBand(audio, name, faulty).value),
                MonoUnit * Len(audio))]

\* calculate_stereo_width with the mid energy over the total
StereoWidthOfMid ==
    IF Len(y) < 2 THEN 0
    ELSE LET mid_energy == SumSq([i \in DOMAIN y[1] |-> y[1][i] + y[2][i]])
             side_energy == SumSq([i \in DOMAIN y[1] |-> y[1][i] - y[2][i]])
         IN  IF mid_energy + side_energy = 0 THEN 0
             ELSE (T(100) * mid_energy) \div (mid_energy + side_energy)

\* calculate_stereo_width(), in steps of 1/Scale per cent
calculate_stereo_width ==
    IF Len(y) < 2 THEN 0
    ELSE LET mid_energy == SumSq([i \in DOMAIN y[1] |-> y[1][i] + y[2][i]])
             side_energy == SumSq([i \in DOMAIN y[1] |-> y[1][i] - y[2][i]])
             width == (T(100) * side_energy) \div (mid_energy + side_energy)
         IN  IF mid_energy + side_energy = 0 THEN 0
             ELSE IF width < 0 THEN 0
             ELSE IF width > T(100) THEN T(100)
             ELSE width

\* audio padded at both ends with half a frame of zeros (center=True)
Padded(audio) ==
    LET pad == FrameLength \div 2
    IN  [i \in 1..(Len(audio) + 2 * pad) |->
            IF i > pad /\ i <= pad + Len(audio) THEN audio[i - pad] ELSE 0]

\* the frames librosa.feature.rms cuts: frame_length samples every hop_length
Frames(audio) ==
    LET p == Padded(audio)
        count == IF Len(p) < FrameLength THEN 0
                 ELSE 1 + (Len(p) - FrameLength) \div HopLength
    IN  [k \in 1..count |-> SubSeq(p, (k - 1) * HopLength + 1,
                                     (k - 1) * HopLength + FrameLength)]

RECURSIVE SqrtFrom(_, _)
SqrtFrom(n, r) == IF (r + 1) * (r + 1) > n THEN r ELSE SqrtFrom(n, r + 1)

\* the square root, rounded down
ISqrt(n) == SqrtFrom(n, 0)

RECURSIVE SumSeq(_)
SumSeq(a) == IF a = <<>> THEN 0 ELSE a[1] + SumSeq(Tail(a))

\* librosa.feature.rms(y=audio)[0]: the RMS amplitude of every frame, in
\* 1/SqrtScale of sqrt(1 / (MonoUnit * FrameLength))
FrameRms(audio) ==
    LET frames == Frames(audio)
    IN  [k \in DOMAIN frames |-> ISqrt(SumSq(frames[k]) * SqrtScale * SqrtScale)]

\* np.mean(rms) with the sum not divided by the number of frames
MeanRmsUndivided(audio) == LET rms == FrameRms(audio) IN SumSeq(rms)

\* np.mean(rms), in the same unit
MeanRms(audio) == LET rms == FrameRms(audio) IN SumSeq(rms) \div Len(rms)

\* 20 * np.log10(np.mean(rms) + 1e-10), in steps
MeanRmsDb(audio) ==
    LET mean == MeanRms(audio)
    IN  DbPower(mean * mean, SqrtScale * SqrtScale * MonoUnit * FrameLength)

\* np.percentile(a, q) of a sorted sequence, by linear interpolation, in
\* hundredths of a step
Percentile100(a, q) ==
    LET pos == q * (Len(a) - 1)
        lo == pos \div 100
    IN  IF lo + 2 > Len(a) THEN 100 * a[Len(a)]
        ELSE 100 * a[lo + 1] + (pos - 100 * lo) * (a[lo + 2] - a[lo + 1])

\* calculate_dynamic_range(audio): the 95th minus the 10th percentile of the
\* frames' levels 20 * log10(rms + 1e-10), in steps
calculate_dynamic_range(audio) ==
    LET frames == Frames(audio)
        rms_db == [k \in DOMAIN frames |->
                      DbPower(SumSq(frames[k]), MonoUnit * FrameLength)]
        sorted == SortSeq(rms_db, LAMBDA a, b : a < b)
    IN  (Percentile100(sorted, 95) - Percentile100(sorted, 10)) \div 100

\* librosa.feature.spectral_centroid of the filtered signal, averaged: 0 for a
\* silent signal, a frequency below Nyquist otherwise (stood for by the
\* middle of the window)
SpectralCentroid(filtered, low, high) ==
    IF SumSq(filtered) = 0 THEN 0 ELSE (low + high) \div 2

-----------------------------------------------------------------------------
(* The operations of an AudioAnalyzer *)

NoBuffer == pc = "none"
\* an analyzer has been constructed and no extractor has been called on it yet
Loaded == pc = "loaded"

\* at most one band's filter faults in a call
Faulty == {{}} \cup {{name} : name \in BandNames}

\* AudioAnalyzer(audio_path, sr): __init__ and load_audio
Construct ==
    /\ NoBuffer
    /\ \E file \in AudioFiles, target_sr \in SampleRates :
         IF ~file.readable
         THEN /\ outcome' = [op |-> "AudioAnalyzer", kind |-> "raised",
                             error |-> "LoadError"]
              /\ UNCHANGED <<y, sr, duration, loaded, pc>>
         ELSE /\ y' = IF Len(file.channels) = 1
                      THEN <<file.channels[1], file.channels[1]>>
                      ELSE file.channels
              /\ sr' = target_sr
              /\ duration' = Len(file.channels[1])
              /\ loaded' = [y |-> y', sr |-> sr', duration |-> duration']
              /\ pc' = "loaded"
              /\ outcome' = [op |-> "AudioAnalyzer", kind |-> "returned"]
    /\ computed' = {}
    /\ earlier' = outcome
    /\ UNCHANGED sessionVars

\* what a call of bandpass_filter on the mono downmix delivers
BandpassOutcome(w, fault) ==
    [op |-> "bandpass_filter", audio |-> Mono2, low |-> w[1],
     high |-> w[2], fault |-> fault,
     result |-> bandpass_filter(Mono2, w[1], w[2], fault)]

\* a call of bandpass_filter on the mono downmix
call_bandpass_filter ==
    /\ Loaded
    /\ \E w \in Windows, fault \in BOOLEAN :
         outcome' = BandpassOutcome(w, fault)
    /\ computed' = {}
    /\ pc' = "called"
    /\ earlier' = outcome
    /\ UNCHANGED bufferVars
    /\ UNCHANGED sessionVars

\* what a call of calculate_band_energies on the mono downmix delivers
BandEnergiesOutcome(faulty) ==
    [op |-> "calculate_band_energies", kind |-> "returned",
     value |-> calculate_band_energies(Mono2, faulty),
     status |-> [name \in BandNames |->
                   FilteredBand(Mono2, name, faulty).status],
     silent |-> [name \in BandNames |->
                   SumSq(FilteredBand(Mono2, name, faulty).value) = 0]]

\* a call of calculate_band_energies on the mono downmix (of an empty downmix
\* np.mean is not a number; the call is modelled for a non-empty one)
call_calculate_band_energies ==
    /\ Loaded
    /\ Len(Mono2) > 0
    /\ \E faulty \in Faulty :
         outcome' = BandEnergiesOutcome(faulty)
    /\ computed' = {"band_energies"}
    /\ pc' = "called"
    /\ earlier' = outcome
    /\ UNCHANGED bufferVars
    /\ UNCHANGED sessionVars

\* the descriptor analyze_instrument builds from a filtered signal
InstrumentDescriptor(filtered, low, high, name) ==
    [name |-> name, freq_range |-> <<low, high>>,
     rms_db |-> DbPower(SumSq(filtered), MonoUnit * Len(filtered)),
     peak_db |-> DbPower(MaxAbs(filtered) * MaxAbs(filtered), MonoUnit),
     spectral_centroid |-> SpectralCentroid(filtered, low, high)]

\* analyze_instrument(freq_range, instrument_name): on an empty signal rms_db
\* is computed (not a number) and then np.max raises ValueError
analyze_instrument(low, high, name, fault) ==
    LET f == bandpass_filter(Mono2, low, high, fault)
    IN  IF Len(Mono2) = 0
        THEN [op |-> "analyze_instrument", kind |-> "raised", error |-> "ValueError",
              status |-> f.status]
        ELSE [op |-> "analyze_instrument", kind |-> "returned",
              value |-> InstrumentDescriptor(f.value, low, high, name),
              status |-> f.status, silent |-> SumSq(f.value) = 0]

call_analyze_instrument ==
    /\ Loaded
    /\ \E w \in Windows, fault \in BOOLEAN :
         outcome' = analyze_instrument(w[1], w[2], "instrument", fault)
    /\ computed' = IF Len(Mono2) = 0 THEN {"rms_db"}
                   ELSE {"rms_db", "peak_db", "spectral_centroid"}
    /\ pc' = "called"
    /\ earlier' = outcome
    /\ UNCHANGED bufferVars
    /\ UNCHANGED sessionVars

\* what a call of calculate_stereo_width delivers
StereoWidthOutcome ==
    [op |-> "calculate_stereo_width", kind |-> "returned",
     value |-> calculate_stereo_width]

\* a call of calculate_stereo_width
call_calculate_stereo_width ==
    /\ Loaded
    /\ outcome' = StereoWidthOutcome
    /\ computed' = {"stereo_width"}
    /\ pc' = "called"
    /\ earlier' = outcome
    /\ UNCHANGED bufferVars
    /\ UNCHANGED sessionVars

\* the descriptor analyze_2mix returns for a non-empty buffer
MixDescriptor(faulty) ==
    LET rms_db == MeanRmsDb(Mono2)
        peak_db == DbPower(MaxAbs(Mono2) * MaxAbs(Mono2), MonoUnit)
    IN  [rms_db |-> rms_db,
         peak_db |-> peak_db,
         crest_factor |-> peak_db - rms_db,
         stereo_width |-> calculate_stereo_width,
         band_energies |-> calculate_band_energies(Mono2, faulty),
         dynamic_range |-> calculate_dynamic_range(Mono2),
         duration |-> duration]

\* analyze_2mix().  On an empty buffer librosa.feature.rms either raises (it
\* pads by reflection) or returns one silent frame (it pads with zeros), and
\* then np.max raises ValueError; done lists the features computed before
analyze_2mix(faulty, rms_raises) ==
    IF Len(Mono2) = 0
    THEN IF rms_raises
         THEN [op |-> "analyze_2mix", kind |-> "raised", error |-> "ValueError",
               done |-> {}]
         ELSE [op |-> "analyze_2mix", kind |-> "raised", error |-> "ValueError",
               done |-> {"rms_db"}]
    ELSE [op |-> "analyze_2mix", kind |-> "returned", value |-> MixDescriptor(faulty),
          done |-> {"rms_db", "peak_db", "crest_factor", "stereo_width",
                    "band_energies", "dynamic_range"}]

call_analyze_2mix ==
    /\ Loaded
    /\ \E faulty \in Faulty, rms_raises \in BOOLEAN :
         /\ outcome' = analyze_2mix(faulty, rms_raises)
         /\ computed' = analyze_2mix(faulty, rms_raises).done
    /\ pc' = "called"
    /\ earlier' = outcome
    /\ UNCHANGED bufferVars
    /\ UNCHANGED sessionVars

NoResult == [rms_db |-> 0, peak_db |-> 0, crest_factor |-> 0, stereo_width |-> 0]

InitAnalyzer ==
    /\ analysis_result = NoResult
    /\ analysis_metadata = DefaultMetadata
    /\ recommendations = EmptyRecommendations
    /\ last_call = NoCall
    /\ prev_call = NoCall
    /\ audio_db = <<>>
    /\ pc = "none"
    /\ AnalyzerIdle
    /\ AccountIdle

NextAnalyzer ==
    \/ Construct
    \/ call_bandpass_filter
    \/ call_calculate_band_energies
    \/ call_analyze_instrument
    \/ call_calculate_stereo_width
    \/ call_analyze_2mix

SpecAnalyzer == InitAnalyzer /\ [][NextAnalyzer]_vars

-----------------------------------------------------------------------------
(* Sequences of extractor calls on one analyzer.  The filter is a function  *)
(* of its input here: no fault is injected between two calls.               *)

\* the windows of the repeated calls: the kick drum's and an inverted one
RepeatWindows == {<<40, 100>>, <<100, 50>>}

RepeatCalls ==
    {[op |-> o, w |-> <<0, 0>>] :
        o \in {"analyze_2mix", "calculate_stereo_width",
               "calculate_band_energies", "calculate_dynamic_range"}}
    \cup {[op |-> o, w |-> w] :
            o \in {"bandpass_filter", "analyze_instrument"}, w \in RepeatWindows}

\* what the called extractor delivers
Extract(call) ==
    CASE call.op = "analyze_2mix" -> analyze_2mix({}, FALSE)
      [] call.op = "calculate_stereo_width" -> StereoWidthOutcome
      [] call.op = "calculate_band_energies" -> BandEnergiesOutcome({})
      [] call.op = "calculate_dynamic_range" ->
            [op |-> "calculate_dynamic_range", kind |-> "returned",
             value |-> calculate_dynamic_range(Mono2)]
      [] call.op = "bandpass_filter" -> BandpassOutcome(call.w, FALSE)
      [] call.op = "analyze_instrument" ->
            analyze_instrument(call.w[1], call.w[2], "instrument", FALSE)

\* an extractor that adds the right channel into the left in place
BufferAfterInPlace(call) ==
    IF call.op = "calculate_stereo_width" THEN <<Mono2, y[2]>> ELSE y

\* self.y after the called extractor: none assigns to self.y or writes into
\* it; np.mean, audio * 0, sosfilt, filtered ** 2, L + R and L - R all build
\* new arrays
BufferAfter(call) == y

\* one more extractor call on an analyzer that holds samples
extract ==
    /\ pc \in {"loaded", "called"}
    /\ duration > 0
    /\ \E call \in RepeatCalls :
         /\ outcome' = [call |-> call, result |-> Extract(call)]
         /\ y' = BufferAfter(call)
    /\ earlier' = outcome
    /\ computed' = {}
    /\ pc' = "called"
    /\ UNCHANGED <<sr, duration, loaded>>
    /\ UNCHANGED sessionVars

NextRepeat == Construct \/ extract

SpecRepeat == InitAnalyzer /\ [][NextRepeat]_vars

-----------------------------------------------------------------------------
(* Claims about the band filter and the extractors *)

AllZero(a) == \A i \in DOMAIN a : a[i] = 0

\* low > high
WindowInverted(low, high) == low > high

\* the two edges coincide once each is clipped to [0.001, 0.999] of Nyquist
WindowCollapsed(low, high) ==
    \/ low = high
    \/ 2000 * low >= 999 * sr /\ 2000 * high >= 999 * sr
    \/ 2000 * low <= sr /\ 2000 * high <= sr

\* C7: bandpass_filter called with a window that is inverted or collapsed after
\* clipping returns an all-zero sequence of the input's length, whatever the
\* input holds, and does not raise
C7_DegenerateWindowGivesZeros ==
    (/\ outcome.op = "bandpass_filter"
     /\ WindowInverted(outcome.low, outcome.high)
            \/ WindowCollapsed(outcome.low, outcome.high))
    => /\ outcome.result.kind = "returned"
       /\ Len(outcome.result.value) = Len(outcome.audio)
       /\ AllZero(outcome.result.value)

\* the window 100 Hz .. 50 Hz on a signal that is not silent
C7_Witness ==
    /\ outcome.op = "bandpass_filter"
    /\ outcome.low = 100
    /\ outcome.high = 50
    /\ ~AllZero(outcome.audio)
    /\ AllZero(outcome.result.value)

\* C8: a failure of the filter's design or application for a window that is
\* not degenerate is caught inside bandpass_filter, which returns an all-zero
\* sequence of the input's length; bandpass_filter never raises to its caller
C8_FilterFaultContained ==
    outcome.op = "bandpass_filter" =>
        /\ outcome.result.kind = "returned"
        /\ (/\ outcome.fault
            /\ ~WindowInverted(outcome.low, outcome.high)
            /\ ~WindowCollapsed(outcome.low, outcome.high))
           => /\ Len(outcome.result.value) = Len(outcome.audio)
              /\ AllZero(outcome.result.value)

\* the filter faulted on a proper window and a signal that is not silent
C8_Witness ==
    /\ outcome.op = "bandpass_filter"
    /\ outcome.fault
    /\ outcome.result.status = "failed"
    /\ ~AllZero(outcome.audio)
    /\ AllZero(outcome.result.value)

ZeroLengthBuffer == pc # "none" /\ Len(y[1]) = 0

\* C9: a zero-length buffer is rejected before any feature is computed:
\* analyze_2mix and calculate_stereo_width called on it raise, return no value
\* for it and have computed no feature on it
C9_ZeroLengthRejected ==
    (ZeroLengthBuffer /\ outcome.op \in {"analyze_2mix", "calculate_stereo_width"})
    => /\ outcome.kind = "raised"
       /\ computed = {}

\* what analyze_instrument reports for a window whose filtered signal is silent
SilentInstrument(low, high, name) ==
    [name |-> name, freq_range |-> <<low, high>>, rms_db |-> T(-200),
     peak_db |-> T(-200), spectral_centroid |-> 0]

\* C10: in the descriptor returned by calculate_band_energies or
\* analyze_instrument, a band or instrument whose filter was degenerate or
\* failed is distinguishable from one whose filtered signal measured zero
\* energy: it does not carry the values a silent measurement carries
C10_FailureDistinctFromSilence ==
    /\ (outcome.op = "calculate_band_energies") =>
          \A b1, b2 \in BandNames :
              (/\ outcome.status[b1] # "filtered"
               /\ outcome.status[b2] = "filtered"
               /\ outcome.silent[b2])
              => outcome.value[b1] # outcome.value[b2]
    /\ (outcome.op = "analyze_instrument" /\ outcome.kind = "returned"
          /\ outcome.status # "filtered") =>
          outcome.value # SilentInstrument(outcome.value.freq_range[1],
                                           outcome.value.freq_range[2],
                                           outcome.value.name)

-----------------------------------------------------------------------------
(* Claims about the mix descriptor *)

\* the energies of L + R and of L - R (the factor 1/2 of mid and side cancels
\* in the ratio)
MidEnergy == SumSq([i \in DOMAIN y[1] |-> y[1][i] + y[2][i]])
SideEnergy == SumSq([i \in DOMAIN y[1] |-> y[1][i] - y[2][i]])

\* the stereo width the last operation delivered, if it delivered one
WidthDelivered ==
    \/ outcome.op = "calculate_stereo_width"
    \/ outcome.op = "analyze_2mix" /\ outcome.kind = "returned"
DeliveredWidth ==
    IF outcome.op = "analyze_2mix" THEN outcome.value.stereo_width
    ELSE outcome.value

\* C12: calculate_stereo_width returns a value in [0, 100]: 0 for fewer than
\* two channels, 0 when mid and side energy are both zero, 0 when the two
\* channels are identical (every mono file), and 100 * side / (mid + side)
\* otherwise
C12_StereoWidthRange ==
    WidthDelivered =>
        /\ DeliveredWidth >= 0
        /\ DeliveredWidth <= T(100)
        /\ Len(y) < 2 => DeliveredWidth = 0
        /\ (Len(y) >= 2 /\ MidEnergy + SideEnergy = 0) => DeliveredWidth = 0
        /\ (Len(y) >= 2 /\ y[1] = y[2]) => DeliveredWidth = 0
        /\ (Len(y) >= 2 /\ MidEnergy + SideEnergy > 0)
           => DeliveredWidth = (T(100) * SideEnergy) \div (MidEnergy + SideEnergy)

\* a mono file that is not silent has width 0
C12_Witness ==
    /\ outcome.op = "calculate_stereo_width"
    /\ y[1] = y[2]
    /\ ~AllZero(y[1])
    /\ outcome.value = 0

\* C13: for every buffer analyze_2mix returns a descriptor for, rms_db <=
\* peak_db, so crest_factor = peak_db - rms_db is never negative
C13_RmsAtMostPeak ==
    (outcome.op = "analyze_2mix" /\ outcome.kind = "returned") =>
        /\ outcome.value.rms_db <= outcome.value.peak_db
        /\ outcome.value.crest_factor = outcome.value.peak_db - outcome.value.rms_db
        /\ outcome.value.crest_factor >= 0

\* a buffer of several frames at full scale, whose RMS is below its peak
C13_Witness ==
    /\ outcome.op = "analyze_2mix"
    /\ outcome.kind = "returned"
    /\ Len(Frames(Mono2)) > 1
    /\ outcome.value.peak_db = 0
    /\ outcome.value.rms_db < 0
    /\ outcome.value.rms_db > T(-200)

\* C14: analyze_2mix on an all-zero buffer of positive length returns, with
\* rms_db = peak_db = -200 dB, crest_factor 0, every band energy at the floor
\* -200 dB, dynamic_range 0 and stereo_width 0
C14_SilenceGivesFloor ==
    (/\ outcome.op = "analyze_2mix"
     /\ duration > 0
     /\ AllZero(y[1])
     /\ AllZero(y[2]))
    => /\ outcome.kind = "returned"
       /\ outcome.value.rms_db = T(-200)
       /\ outcome.value.peak_db = T(-200)
       /\ outcome.value.crest_factor = 0
       /\ \A name \in BandNames : outcome.value.band_energies[name] = T(-200)
       /\ outcome.value.dynamic_range = 0
       /\ outcome.value.stereo_width = 0

\* a silent stereo buffer of the greatest length was analysed
C14_Witness ==
    /\ outcome.op = "analyze_2mix"
    /\ outcome.kind = "returned"
    /\ duration = MaxLen
    /\ AllZero(y[1])
    /\ AllZero(y[2])
    /\ outcome.value.rms_db = T(-200)
    /\ outcome.value.dynamic_range = 0
-----------------------------------------------------------------------------
(* Claims about sequences of extractor calls *)

\* the last two operations were the same call of an extractor
SameCallTwice ==
    /\ "call" \in DOMAIN earlier
    /\ "call" \in DOMAIN outcome
    /\ earlier.call = outcome.call

\* C15: after any sequence of calls of analyze_2mix, calculate_stereo_width,
\* calculate_band_energies, bandpass_filter, calculate_dynamic_range and
\* analyze_instrument the analyzer's y, sr and duration are what load_audio
\* produced, and a call repeated returns the same descriptor
C15_BufferNeverMutated ==
    pc \in {"loaded", "called"} =>
        /\ y = loaded.y
        /\ sr = loaded.sr
        /\ duration = loaded.duration
        /\ SameCallTwice => earlier.result = outcome.result

\* analyze_2mix called twice in a row on a stereo buffer that is not silent
C15_Witness ==
    /\ SameCallTwice
    /\ outcome.call.op = "analyze_2mix"
    /\ outcome.result.kind = "returned"
    /\ y[1] # y[2]
    /\ ~AllZero(Mono2)
-----------------------------------------------------------------------------
(* UserDatabase: the accounts of users.json                                 *)
(*                                                                          *)
(* A string that is searched or rewritten (an email, a file stem) is a      *)
(* sequence of tokens: each of '@', '.', '_' is a token, and so is every    *)
(* longest run of other characters.  str.replace of patterns made of        *)
(* '@', '.', '_' and the word "at" then acts on tokens as it acts on        *)
(* characters.                                                              *)

AdminEmail == <<"admin", "@", "pa-analyzer", ".", "local">>
AdminPassword == "admin123"

\* datetime.now().isoformat() in an account record (displayed, never compared)
Stamp == [isoformat |-> "now"]

\* secrets.token_hex(16): the salts a hash may draw
Salts == {"salt1", "salt2"}

\* _hash_password(password) with the drawn salt: f"{salt}:{sha256(password + salt)}",
\* the digest kept as the pair it is computed from
HashPassword(password, salt) == [salt |-> salt, digest |-> <<password, salt>>]

\* _verify_password(password, stored_hash)
VerifyPassword(password, stored_hash) ==
    <<password, stored_hash.salt>> = stored_hash.digest

\* a dictionary with one key set
Put(d, key, value) ==
    [k \in DOMAIN d \cup {key} |-> IF k = key THEN value ELSE d[k]]

\* dict.update
Update(d, other) ==
    [k \in DOMAIN d \cup DOMAIN other |-> IF k \in DOMAIN other THEN other[k] ELSE d[k]]

\* create_default_admin(): the record has neither 'last_login' nor 'stats'
create_default_admin(salt) ==
    Put(<<>>, AdminEmail,
        [email |-> AdminEmail,
         password_hash |-> HashPassword(AdminPassword, salt),
         name |-> "Administrator",
         role |-> "admin",
         created_at |-> Stamp,
         profile |-> [organization |-> "PA Analyzer", location |-> "",
                      bio |-> "System administrator"]])

\* register_user without its check for an email that is registered already
RegisterOverwriting(db, email, password, name, organization, location, salt) ==
    [users |-> Put(db, email,
                   [email |-> email,
                    password_hash |-> HashPassword(password, salt),
                    name |-> name,
                    role |-> "user",
                    created_at |-> Stamp,
                    last_login |-> None,
                    profile |-> [organization |-> organization,
                                 location |-> location, bio |-> ""],
                    stats |-> [total_analyses |-> 0,
                               last_analysis_date |-> None]]),
     ret |-> <<TRUE, "registered">>]

\* register_user(email, password, name, organization, location)
register_user(db, email, password, name, organization, location, salt) ==
    IF email \in DOMAIN db
    THEN [users |-> db, ret |-> <<FALSE, "already registered">>]
    ELSE [users |-> Put(db, email,
                        [email |-> email,
                         password_hash |-> HashPassword(password, salt),
                         name |-> name,
                         role |-> "user",
                         created_at |-> Stamp,
                         last_login |-> None,
                         profile |-> [organization |-> organization,
                                      location |-> location, bio |-> ""],
                         stats |-> [total_analyses |-> 0,
                                    last_analysis_date |-> None]]),
          ret |-> <<TRUE, "registered">>]

\* authenticate(email, password): the user returned is the record with its
\* last_login set
authenticate(db, email, password) ==
    IF email \notin DOMAIN db
    THEN [users |-> db, ret |-> <<FALSE, "wrong email or password">>]
    ELSE IF ~VerifyPassword(password, db[email].password_hash)
    THEN [users |-> db, ret |-> <<FALSE, "wrong email or password">>]
    ELSE LET record == Put(db[email], "last_login", Stamp)
         IN  [users |-> Put(db, email, record), ret |-> <<TRUE, record>>]

\* get_user(email)
get_user(db, email) == IF email \in DOMAIN db THEN db[email] ELSE None

\* update_user_stats(email): a record without 'stats' raises KeyError
update_user_stats(db, email) ==
    IF email \notin DOMAIN db
    THEN [users |-> db, kind |-> "returned"]
    ELSE IF "stats" \notin DOMAIN db[email]
    THEN [users |-> db, kind |-> "raised", error |-> "KeyError"]
    ELSE [users |-> Put(db, email,
                        Put(db[email], "stats",
                            [total_analyses |-> db[email].stats.total_analyses + 1,
                             last_analysis_date |-> Stamp])),
          kind |-> "returned"]

\* update_profile merging the data into the account record itself
UpdateProfileIntoRecord(db, email, profile_data) ==
    IF email \in DOMAIN db
    THEN [users |-> Put(db, email, Update(db[email], profile_data)), ret |-> TRUE]
    ELSE [users |-> db, ret |-> FALSE]

\* update_profile(email, profile_data)
update_profile(db, email, profile_data) ==
    IF email \in DOMAIN db
    THEN [users |-> Put(db, email,
                        Put(db[email], "profile",
                            Update(db[email].profile, profile_data))),
          ret |-> TRUE]
    ELSE [users |-> db, ret |-> FALSE]

\* change_password without its verification of the old password
ChangePasswordUnverified(db, email, old_password, new_password, salt) ==
    IF email \notin DOMAIN db
    THEN [users |-> db, ret |-> <<FALSE, "user not found">>]
    ELSE [users |-> Put(db, email,
                        Put(db[email], "password_hash",
                            HashPassword(new_password, salt))),
          ret |-> <<TRUE, "password changed">>]

\* change_password(email, old_password, new_password)
change_password(db, email, old_password, new_password, salt) ==
    IF email \notin DOMAIN db
    THEN [users |-> db, ret |-> <<FALSE, "user not found">>]
    ELSE IF ~VerifyPassword(old_password, db[email].password_hash)
    THEN [users |-> db, ret |-> <<FALSE, "current password is wrong">>]
    ELSE [users |-> Put(db, email,
                        Put(db[email], "password_hash",
                            HashPassword(new_password, salt))),
          ret |-> <<TRUE, "password changed">>]
-----------------------------------------------------------------------------
(* UserAudioDatabase: one file of analyses per user *)

RECURSIVE Replace(_, _, _)
\* s.replace(old, new): every occurrence, left to right, without overlap
Replace(s, old, new) ==
    IF Len(s) < Len(old) THEN s
    ELSE IF SubSeq(s, 1, Len(old)) = old
    THEN new \o Replace(SubSeq(s, Len(old) + 1, Len(s)), old, new)
    ELSE <<s[1]>> \o Replace(Tail(s), old, new)

\* _get_user_db_path(email): the stem of the user's file
get_user_db_path(email) ==
    Replace(Replace(email, <<"@">>, <<"_", "at", "_">>), <<".">>, <<"_">>)

\* the email get_all_analyses_for_admin restores from a stem
RestoreEmail(stem) ==
    Replace(Replace(stem, <<"_", "at", "_">>, <<"@">>), <<"_">>, <<".">>)

\* datetime.now().strftime('%Y%m%d_%H%M%S') at tick t: the second t falls in
EntryId(t) == t \div TicksPerSecond

\* add_analysis(email, analysis_data, metadata) at tick t.  added_by is
\* history: the email the entry was added with
add_analysis(db, email, analysis_data, metadata, t) ==
    LET stem == get_user_db_path(email)
        entry == [id |-> EntryId(t), timestamp |-> t, metadata |-> metadata,
                  analysis |-> analysis_data, added_by |-> email]
    IN  [db |-> WriteFile(db, stem, Append(ReadFile(db, stem), entry)),
         ret |-> entry.id]

\* analyses.sort(key=lambda x: x['timestamp'], reverse=True)
NewestFirst(entries) == SortSeq(entries, LAMBDA a, b : a.timestamp > b.timestamp)

\* get_user_analyses(email)
get_user_analyses(db, email) ==
    NewestFirst(ReadFile(db, get_user_db_path(email)))

\* delete_analysis(email, analysis_id)
delete_analysis(db, email, analysis_id) ==
    LET stem == get_user_db_path(email)
        kept == SelectSeq(ReadFile(db, stem), LAMBDA a : a.id # analysis_id)
    IN  IF stem \notin DOMAIN db THEN [db |-> db, ret |-> FALSE]
        ELSE IF Len(kept) < Len(db[stem])
        THEN [db |-> WriteFile(db, stem, kept), ret |-> TRUE]
        ELSE [db |-> db, ret |-> FALSE]

RECURSIVE Concat(_, _)
\* the entries of the files in stems, one file after the other, each entry
\* with the user_email restored from its file's stem
Concat(db, stems) ==
    IF stems = {} THEN <<>>
    ELSE LET stem == CHOOSE x \in stems : TRUE
         IN  [k \in DOMAIN db[stem] |->
                 Put(db[stem][k], "user_email", RestoreEmail(stem))]
             \o Concat(db, stems \ {stem})

\* get_all_analyses_for_admin()
get_all_analyses_for_admin(db) == NewestFirst(Concat(db, DOMAIN db))
-----------------------------------------------------------------------------
(* The analysis run of show_upload_section *)

InstrumentKeys == {Instruments[i].key : i \in DOMAIN Instruments}
InstrumentOf(key) ==
    CHOOSE w \in {Instruments[i] : i \in DOMAIN Instruments} : w.key = key

\* at most one instrument's filter faults in a run
InstrumentFaulty == {{}} \cup {{key} : key \in InstrumentKeys}

\* the instruments dictionary where one faulted filter silences every instrument
InstrumentsFaultShared(faulty) ==
    [key \in InstrumentKeys |->
        analyze_instrument(InstrumentOf(key).low, InstrumentOf(key).high, key,
                           faulty # {})]

\* the five analyze_instrument calls of the instruments dictionary
AnalyzeInstruments(faulty) ==
    [key \in InstrumentKeys |->
        analyze_instrument(InstrumentOf(key).low, InstrumentOf(key).high, key,
                           key \in faulty)]

\* analyze_2mix and the instruments dictionary, merged; any exception leaves
\* the try block
RunAnalysis(band_faulty, instrument_faulty, rms_raises) ==
    LET mix == analyze_2mix(band_faulty, rms_raises)
        instruments == AnalyzeInstruments(instrument_faulty)
    IN  IF mix.kind = "raised"
        THEN [kind |-> "raised", error |-> mix.error]
        ELSE IF \E key \in InstrumentKeys : instruments[key].kind = "raised"
        THEN [kind |-> "raised", error |-> "ValueError"]
        ELSE [kind |-> "returned",
              value |-> Put(mix.value, "instruments",
                            [key \in InstrumentKeys |-> instruments[key].value])]

\* the button of the upload section up to AudioAnalyzer(tmp_path): names are
\* required, then the uploaded file is loaded at the default rate
begin_run(files) ==
    /\ authenticated
    /\ "analyzer" \in rendered
    /\ pc = "none"
    /\ now < MaxTime
    /\ \E file \in files, named \in BOOLEAN :
         IF ~named
         THEN /\ outcome' = [op |-> "show_upload_section", kind |-> "rejected"]
              /\ UNCHANGED <<y, sr, duration, loaded, pc>>
         ELSE IF ~file.readable
         THEN /\ outcome' = [op |-> "show_upload_section", kind |-> "error",
                             error |-> "LoadError"]
              /\ UNCHANGED <<y, sr, duration, loaded, pc>>
         ELSE /\ y' = IF Len(file.channels) = 1
                      THEN <<file.channels[1], file.channels[1]>>
                      ELSE file.channels
              /\ sr' = 44100
              /\ duration' = Len(file.channels[1])
              /\ loaded' = [y |-> y', sr |-> sr', duration |-> duration']
              /\ pc' = "loaded"
              /\ outcome' = [op |-> "AudioAnalyzer", kind |-> "returned"]
    /\ computed' = {}
    /\ UNCHANGED earlier
    /\ UNCHANGED sessionVars

\* the rest of the try block: the analysis, the session's result, the user's
\* statistics and the stored entry; an exception anywhere ends the block at
\* its except clause
finish_run(band_faults, instrument_faults, metadatas, steps) ==
    /\ pc = "loaded"
    /\ \E band_faulty \in band_faults, instrument_faulty \in instrument_faults,
          rms_raises \in IF duration = 0 THEN BOOLEAN ELSE {FALSE},
          metadata \in metadatas, dt \in steps :
         LET run == RunAnalysis(band_faulty, instrument_faulty, rms_raises)
             stats == update_user_stats(users, user.email)
             added == add_analysis(audio_db, user.email, run.value, metadata, now)
             faults == [band |-> band_faulty, instrument |-> instrument_faulty]
         IN  IF run.kind = "raised"
             THEN /\ outcome' = [op |-> "show_upload_section", kind |-> "error",
                                 error |-> run.error, faults |-> faults,
                                 in_session |-> FALSE]
                  /\ UNCHANGED <<analysis_result, analysis_metadata, users,
                                 audio_db, now>>
             ELSE /\ analysis_result' = run.value
                  /\ analysis_metadata' = metadata
                  /\ IF stats.kind = "raised"
                     THEN /\ outcome' = [op |-> "show_upload_section",
                                         kind |-> "error", error |-> stats.error,
                                         faults |-> faults, in_session |-> TRUE]
                          /\ UNCHANGED <<users, audio_db, now>>
                     ELSE /\ users' = stats.users
                          /\ audio_db' = added.db
                          /\ now' = IF now + dt > MaxTime THEN MaxTime ELSE now + dt
                          /\ outcome' = [op |-> "show_upload_section",
                                         kind |-> "completed", entry_id |-> added.ret,
                                         timestamp |-> now,
                                         faults |-> faults, in_session |-> TRUE]
    /\ pc' = "none"
    /\ computed' = {}
    /\ UNCHANGED <<recommendations, last_call, prev_call, authenticated, user,
                   page, rendered, earlier>>
    /\ UNCHANGED bufferVars

\* the users of the model besides the administrator: two emails that differ
\* in one character, '.' against '_'
UserA == <<"a", ".", "b", "@", "x", ".", "com">>
UserB == <<"a", "_", "b", "@", "x", ".", "com">>

\* a database with the default administrator and one registered user
UsersWithA ==
    register_user(create_default_admin("salt1"), UserA, "secret1", "Sato", "", "",
                  "salt1").users

\* a user is logged in on the analyzer page of a fresh installation
InitRun ==
    /\ analysis_result = NoResult
    /\ analysis_metadata = DefaultMetadata
    /\ recommendations = EmptyRecommendations
    /\ last_call = NoCall
    /\ prev_call = NoCall
    /\ audio_db = <<>>
    /\ pc = "none"
    /\ AnalyzerIdle
    /\ users = authenticate(UsersWithA, UserA, "secret1").users
    /\ authenticated = TRUE
    /\ user = authenticate(UsersWithA, UserA, "secret1").ret[2]
    /\ page = "login"
    /\ rendered = {"analyzer"}
    /\ now = 0

\* the first run on an empty store, with at most one faulting band filter
\* and one faulting instrument filter
NextRun ==
    \/ audio_db = <<>> /\ begin_run(AudioFiles)
    \/ finish_run(Faulty, InstrumentFaulty, {DefaultMetadata}, {1})

SpecRun == InitRun /\ [][NextRun]_vars

-----------------------------------------------------------------------------
(* The pages: main(), the login and registration pages, the profile page  *)
(* and the history page.  Every action is one script run, started by the  *)
(* widget the user operated; a widget can be operated only on a page that *)
(* the run before rendered.                                               *)

\* what the account pages leave alone
analysisVars == <<analysis_result, analysis_metadata, recommendations, last_call,
                  prev_call, y, sr, duration, loaded, earlier, pc, computed>>

\* len(password)
PasswordLength(password) ==
    CASE password = "" -> 0
      [] password = "short" -> 5
      [] password = "secret1" -> 7
      [] OTHER -> 8

\* the options of the sidebar's menu
MenuOptions(usr) ==
    {"analyzer", "history", "profile"}
    \cup (IF usr.role = "admin" THEN {"admin"} ELSE {})

\* main() without its check of st.session_state.authenticated
MainWithoutGate(auth, usr, pg, menu) ==
    IF menu = "analyzer" THEN {"analyzer"}
    ELSE IF menu = "history" THEN {"history"}
    ELSE IF menu = "profile" THEN {"profile"}
    ELSE IF menu = "admin" /\ usr.role = "admin" THEN {"admin"}
    ELSE {}

\* main(): the pages a script run renders for this session state and this
\* choice in the menu
main(auth, usr, pg, menu) ==
    IF ~auth
    THEN IF pg = "login" THEN {"login"}
         ELSE IF pg = "register" THEN {"register"}
         ELSE {}
    ELSE IF menu = "analyzer" THEN {"analyzer"}
    ELSE IF menu = "history" THEN {"history"}
    ELSE IF menu = "profile" THEN {"profile"}
    ELSE IF menu = "admin" /\ usr.role = "admin" THEN {"admin"}
    ELSE {}

\* the choice the menu holds while a page is on screen
MenuShown == IF rendered \subseteq {"login", "register"} THEN "analyzer"
             ELSE CHOOSE menu \in rendered : TRUE

\* a choice in the sidebar's menu; the history page and the administrator's
\* dashboard read the store while they render
select_menu ==
    /\ authenticated
    /\ pc = "none"
    /\ \E menu \in MenuOptions(user) :
         /\ rendered' = main(authenticated, user, page, menu)
         /\ outcome' =
               IF menu = "history"
               THEN [op |-> "get_user_analyses", email |-> user.email,
                     value |-> get_user_analyses(audio_db, user.email)]
               ELSE IF menu = "admin"
               THEN [op |-> "get_all_analyses_for_admin",
                     value |-> get_all_analyses_for_admin(audio_db)]
               ELSE [op |-> "main", menu |-> menu]
    /\ UNCHANGED <<audio_db, users, authenticated, user, page, now>>
    /\ UNCHANGED analysisVars

\* the login form submitted
login_submit(emails, passwords) ==
    /\ "login" \in rendered
    /\ \E email \in emails, password \in passwords :
         IF email = <<>> \/ password = ""
         THEN /\ outcome' = [op |-> "show_login_page", kind |-> "warning"]
              /\ UNCHANGED <<users, authenticated, user, rendered>>
         ELSE LET call == authenticate(users, email, password)
              IN  /\ users' = call.users
                  /\ outcome' = [op |-> "authenticate", email |-> email,
                                 success |-> call.ret[1]]
                  /\ IF call.ret[1]
                     THEN /\ authenticated' = TRUE
                          /\ user' = call.ret[2]
                          /\ rendered' = main(TRUE, call.ret[2], page, "analyzer")
                     ELSE UNCHANGED <<authenticated, user, rendered>>
    /\ UNCHANGED <<audio_db, page, now>>
    /\ UNCHANGED analysisVars

\* the login page's button to the registration page
go_register ==
    /\ "login" \in rendered
    /\ page' = "register"
    /\ rendered' = main(authenticated, user, "register", MenuShown)
    /\ outcome' = [op |-> "show_login_page", kind |-> "to_register"]
    /\ UNCHANGED <<audio_db, users, authenticated, user, now>>
    /\ UNCHANGED analysisVars

\* the registration page's button back to the login page
back_to_login ==
    /\ "register" \in rendered
    /\ page' = "login"
    /\ rendered' = main(authenticated, user, "login", MenuShown)
    /\ outcome' = [op |-> "show_register_page", kind |-> "to_login"]
    /\ UNCHANGED <<audio_db, users, authenticated, user, now>>
    /\ UNCHANGED analysisVars

\* the registration form submitted
register_submit(emails, passwords, names, salts) ==
    /\ "register" \in rendered
    /\ \E email \in emails, password \in passwords, password_confirm \in passwords,
          name \in names, salt \in salts :
         IF email = <<>> \/ password = "" \/ name = ""
         THEN /\ outcome' = [op |-> "show_register_page", kind |-> "required"]
              /\ UNCHANGED users
         ELSE IF password # password_confirm
         THEN /\ outcome' = [op |-> "show_register_page", kind |-> "mismatch"]
              /\ UNCHANGED users
         ELSE IF PasswordLength(password) < 6
         THEN /\ outcome' = [op |-> "show_register_page", kind |-> "too_short"]
              /\ UNCHANGED users
         ELSE LET call == register_user(users, email, password, name, "", "", salt)
              IN  /\ users' = call.users
                  /\ outcome' = [op |-> "register_user", email |-> email,
                                 success |-> call.ret[1]]
    /\ UNCHANGED <<audio_db, authenticated, user, page, rendered, now>>
    /\ UNCHANGED analysisVars

\* the sidebar's logout button
logout ==
    /\ authenticated
    /\ pc = "none"
    /\ authenticated' = FALSE
    /\ user' = None
    /\ page' = "login"
    /\ rendered' = main(FALSE, None, "login", "analyzer")
    /\ outcome' = [op |-> "logout"]
    /\ UNCHANGED <<audio_db, users, now>>
    /\ UNCHANGED analysisVars

\* the profile form submitted: the name is written into the record, the
\* profile is merged and saved, and the session's user is read again
profile_submit(names, organizations) ==
    /\ "profile" \in rendered
    /\ \E name \in names, organization \in organizations :
         LET named == Put(users, user.email, Put(users[user.email], "name", name))
             call == update_profile(named, user.email,
                                    [organization |-> organization,
                                     location |-> user.profile.location,
                                     bio |-> user.profile.bio])
         IN  /\ users' = call.users
             /\ user' = get_user(call.users, user.email)
             /\ outcome' = [op |-> "update_profile", email |-> user.email,
                            ret |-> call.ret]
    /\ UNCHANGED <<audio_db, authenticated, page, rendered, now>>
    /\ UNCHANGED analysisVars

\* the password form submitted
password_submit(passwords, salts) ==
    /\ "profile" \in rendered
    /\ \E old_password \in passwords, new_password \in passwords,
          new_password_confirm \in passwords, salt \in salts :
         IF old_password = "" \/ new_password = ""
         THEN /\ outcome' = [op |-> "show_user_profile", kind |-> "required"]
              /\ UNCHANGED users
         ELSE IF new_password # new_password_confirm
         THEN /\ outcome' = [op |-> "show_user_profile", kind |-> "mismatch"]
              /\ UNCHANGED users
         ELSE IF PasswordLength(new_password) < 6
         THEN /\ outcome' = [op |-> "show_user_profile", kind |-> "too_short"]
              /\ UNCHANGED users
         ELSE LET call == change_password(users, user.email, old_password,
                                          new_password, salt)
              IN  /\ users' = call.users
                  /\ outcome' = [op |-> "change_password", email |-> user.email,
                                 success |-> call.ret[1]]
    /\ UNCHANGED <<audio_db, authenticated, user, page, rendered, now>>
    /\ UNCHANGED analysisVars

\* the delete button of an entry of the history page
delete_click ==
    /\ "history" \in rendered
    /\ pc = "none"
    /\ \E k \in DOMAIN get_user_analyses(audio_db, user.email) :
         LET analysis == get_user_analyses(audio_db, user.email)[k]
             call == delete_analysis(audio_db, user.email, analysis.id)
         IN  /\ audio_db' = call.db
             /\ outcome' = [op |-> "delete_analysis", email |-> user.email,
                            analysis |-> analysis, ret |-> call.ret,
                            before |-> audio_db]
    /\ UNCHANGED <<users, authenticated, user, page, rendered, now>>
    /\ UNCHANGED analysisVars

-----------------------------------------------------------------------------
(* Sessions of a fresh installation: logging in and out, registering, the  *)
(* menu and the profile page                                               *)

SessionEmails == {<<>>, AdminEmail, UserA}
SessionPasswords == {"", AdminPassword, "secret1", "short"}

InitSession ==
    /\ analysis_result = NoResult
    /\ analysis_metadata = DefaultMetadata
    /\ recommendations = EmptyRecommendations
    /\ last_call = NoCall
    /\ prev_call = NoCall
    /\ audio_db = <<>>
    /\ pc = "none"
    /\ AnalyzerIdle
    /\ \E salt \in Salts : users = create_default_admin(salt)
    /\ authenticated = FALSE
    /\ user = None
    /\ page = "login"
    /\ rendered = main(FALSE, None, "login", "analyzer")
    /\ now = 0

NextSession ==
    \/ login_submit(SessionEmails, SessionPasswords)
    \/ go_register
    \/ back_to_login
    \/ register_submit(SessionEmails, SessionPasswords, {"", "Sato"}, Salts)
    \/ select_menu
    \/ logout
    \/ profile_submit({"Suzuki"}, {"Studio"})
    \/ password_submit(SessionPasswords, Salts)

SpecSession == InitSession /\ [][NextSession]_vars

-----------------------------------------------------------------------------
(* Calls of the UserDatabase methods on a fresh users.json *)

UsersEmails == {AdminEmail, UserA}
UsersPasswords == {AdminPassword, "secret1"}

\* the dictionaries update_profile is called with: a profile field, and a key
\* named like a field of the account record
ProfileDatas == {[organization |-> "Studio"], [role |-> "admin"]}

methodVars == <<analysis_result, analysis_metadata, recommendations, last_call,
                prev_call, audio_db, authenticated, user, page, rendered, now,
                y, sr, duration, loaded, earlier, pc, computed>>

call_register_user ==
    /\ \E email \in UsersEmails, password \in UsersPasswords, salt \in Salts :
         LET call == register_user(users, email, password, "Sato", "", "", salt)
         IN  /\ users' = call.users
             /\ outcome' = [op |-> "register_user", email |-> email,
                            success |-> call.ret[1]]
    /\ UNCHANGED methodVars

call_authenticate ==
    /\ \E email \in UsersEmails, password \in UsersPasswords :
         LET call == authenticate(users, email, password)
         IN  /\ users' = call.users
             /\ outcome' = [op |-> "authenticate", email |-> email,
                            success |-> call.ret[1]]
    /\ UNCHANGED methodVars

call_update_profile ==
    /\ \E email \in UsersEmails, profile_data \in ProfileDatas :
         LET call == update_profile(users, email, profile_data)
         IN  /\ users' = call.users
             /\ outcome' = [op |-> "update_profile", email |-> email,
                            ret |-> call.ret]
    /\ UNCHANGED methodVars

call_change_password ==
    /\ \E email \in UsersEmails, old_password \in UsersPasswords,
          new_password \in UsersPasswords, salt \in Salts :
         LET call == change_password(users, email, old_password, new_password, salt)
         IN  /\ users' = call.users
             /\ outcome' = [op |-> "change_password", email |-> email,
                            old_password |-> old_password,
                            new_password |-> new_password,
                            success |-> call.ret[1]]
    /\ UNCHANGED methodVars

\* update_user_stats, for an account that has fewer than MaxStored analyses
call_update_user_stats ==
    /\ \E email \in UsersEmails :
         /\ (email \in DOMAIN users /\ "stats" \in DOMAIN users[email])
               => users[email].stats.total_analyses < MaxStored
         /\ LET call == update_user_stats(users, email)
            IN  /\ users' = call.users
                /\ outcome' = [op |-> "update_user_stats", email |-> email,
                               kind |-> call.kind]
    /\ UNCHANGED methodVars

\* the update of the profile form for a registered account: the name is
\* written into the record, then update_profile merges the profile fields
profile_form_update ==
    /\ \E email \in DOMAIN users :
         LET named == Put(users, email, Put(users[email], "name", "Suzuki"))
             call == update_profile(named, email,
                                    [organization |-> "Studio", location |-> "",
                                     bio |-> ""])
         IN  /\ users' = call.users
             /\ outcome' = [op |-> "profile_form", email |-> email,
                            ret |-> call.ret]
    /\ UNCHANGED methodVars

InitUsers ==
    /\ analysis_result = NoResult
    /\ analysis_metadata = DefaultMetadata
    /\ recommendations = EmptyRecommendations
    /\ last_call = NoCall
    /\ prev_call = NoCall
    /\ audio_db = <<>>
    /\ pc = "none"
    /\ AnalyzerIdle
    /\ \E salt \in Salts : users = create_default_admin(salt)
    /\ authenticated = FALSE
    /\ user = None
    /\ page = "login"
    /\ rendered = {}
    /\ now = 0

NextUsers ==
    \/ call_register_user
    \/ call_authenticate
    \/ call_update_profile
    \/ call_change_password
    \/ call_update_user_stats
    \/ profile_form_update

SpecUsers == InitUsers /\ [][NextUsers]_vars

-----------------------------------------------------------------------------
(* Analyses stored and read by several users: the administrator and two   *)
(* registered users log in and out, run analyses, open the history page   *)
(* and the dashboard, and delete entries                                  *)

StoreEmails == {AdminEmail, UserA, UserB}
StorePasswords == {AdminPassword, "secret1"}

\* the file uploaded in these runs: one mono sample at full scale
StoreFiles == {[readable |-> TRUE, channels |-> <<<<1>>>>]}

\* users.json after the two users have registered
UsersWithAB ==
    register_user(UsersWithA, UserB, "secret1", "Suzuki", "", "", "salt2").users

InitStore ==
    /\ analysis_result = NoResult
    /\ analysis_metadata = DefaultMetadata
    /\ recommendations = EmptyRecommendations
    /\ last_call = NoCall
    /\ prev_call = NoCall
    /\ audio_db = <<>>
    /\ pc = "none"
    /\ AnalyzerIdle
    /\ users = UsersWithAB
    /\ authenticated = FALSE
    /\ user = None
    /\ page = "login"
    /\ rendered = main(FALSE, None, "login", "analyzer")
    /\ now = 0

NextStore ==
    \/ login_submit(StoreEmails, StorePasswords)
    \/ logout
    \/ select_menu
    \/ begin_run(StoreFiles)
    \/ finish_run({{}}, {{}}, {DefaultMetadata}, {1, TicksPerSecond})
    \/ delete_click

SpecStore == InitStore /\ [][NextStore]_vars

-----------------------------------------------------------------------------
(* Claims about the analysis run *)

\* the last operation was a run on a buffer that holds samples
RunOnSamples == outcome.op = "show_upload_section" /\ pc = "none" /\ duration > 0
                /\ "faults" \in DOMAIN outcome

-----------------------------------------------------------------------------
(* Claims about sessions and accounts *)

ProtectedPages == {"analyzer", "history", "profile", "admin"}

\* C19: the analyzer, history and profile pages are rendered only while
\* st.session_state.authenticated is True, which only a successful
\* authenticate sets; the administrator's dashboard is rendered only when the
\* session user's role is 'admin'; after logout authenticated is False, user
\* is None and page is 'login'
C19_AccessGated ==
    /\ []((rendered \cap ProtectedPages # {})
            => (authenticated = TRUE /\ user # None
                /\ user.email \in DOMAIN users))
    /\ []("admin" \in rendered => (authenticated = TRUE /\ user.role = "admin"))
    /\ [](outcome.op = "logout"
            => (authenticated = FALSE /\ user = None /\ page = "login"
                /\ rendered \cap ProtectedPages = {}))
    /\ [][(authenticated = FALSE /\ authenticated' = TRUE)
            => (/\ outcome'.op = "authenticate"
                /\ outcome'.success
                /\ user' = users'[outcome'.email])]_vars

\* the administrator's dashboard is on screen after a registered user had
\* logged in and out
C19_Witness ==
    /\ "admin" \in rendered
    /\ UserA \in DOMAIN users
    /\ users[UserA].last_login = Stamp

\* C20: from a fresh user database, after any sequence of register_user,
\* authenticate, update_profile, change_password, update_user_stats and
\* updates of the profile form, admin@pa-analyzer.local is the only account
\* whose role is 'admin', every account register_user created has the role
\* 'user', and no operation changes the role of an account
C20_NoPrivilegeEscalation ==
    /\ [](AdminEmail \in DOMAIN users)
    /\ [](\A email \in DOMAIN users :
              users[email].role = IF email = AdminEmail THEN "admin" ELSE "user")
    /\ [][\A email \in DOMAIN users :
              email \in DOMAIN users' /\ users'[email].role = users[email].role]_vars

\* a registered user whose profile was given a key named role, whose name was
\* changed, who logged in and was counted an analysis
C20_Witness ==
    /\ UserA \in DOMAIN users
    /\ "role" \in DOMAIN users[UserA].profile
    /\ users[UserA].name = "Suzuki"
    /\ users[UserA].last_login = Stamp
    /\ users[UserA].stats.total_analyses > 0
    /\ users[UserA].role = "user"
-----------------------------------------------------------------------------
(* Claims about the per-user store *)

\* the entries a deletion removed: those of the directory before it that the
\* directory no longer holds
Removed ==
    UNION {{outcome.before[stem][k] : k \in DOMAIN outcome.before[stem]}
              \ {ReadFile(audio_db, stem)[k] : k \in DOMAIN ReadFile(audio_db, stem)} :
           stem \in DOMAIN outcome.before}

\* C16: get_user_analyses(e1) returns only entries that were added with e1,
\* and delete_analysis(e1, id) removes no entry that was added with another
\* email: two distinct emails never share a store
C16_PerUserIsolation ==
    /\ outcome.op = "get_user_analyses"
         => \A k \in DOMAIN outcome.value : outcome.value[k].added_by = outcome.email
    /\ outcome.op = "delete_analysis"
         => \A entry \in Removed : entry.added_by = outcome.email

\* the session's result comes from the run that just ended
RunLeftResult ==
    /\ outcome.op = "show_upload_section"
    /\ "in_session" \in DOMAIN outcome
    /\ outcome.in_session

\* C17: when an authenticated user of any role, the default administrator
\* included, has run an analysis and the session holds its result, the run's
\* entry is in the user's store and get_user_analyses returns it
C17_RunIsStored ==
    RunLeftResult =>
        \E k \in DOMAIN get_user_analyses(audio_db, user.email) :
            LET entry == get_user_analyses(audio_db, user.email)[k]
            IN  /\ entry.analysis = analysis_result
                /\ entry.metadata = analysis_metadata
                /\ entry.added_by = user.email

\* C18: every entry of the administrator's listing carries as user_email the
\* email of the user who added it: restoring the email from the file's stem
\* inverts _get_user_db_path for every email, also one that contains '_'
C18_ListingRestoresOwner ==
    outcome.op = "get_all_analyses_for_admin"
        => \A k \in DOMAIN outcome.value :
               outcome.value[k].user_email = outcome.value[k].added_by
-----------------------------------------------------------------------------
(* Claims about the UserDatabase methods *)

\* the account record without its password hash
WithoutHash(record) == [k \in DOMAIN record \ {"password_hash"} |-> record[k]]

\* C21: change_password(email, old, new) succeeds exactly when the email is
\* registered and old verifies against the stored hash; a failure returns
\* False and leaves every record as it was; a success stores a hash that new
\* verifies against and changes nothing else, and when new differs from old,
\* authenticate(email, new) succeeds afterwards and authenticate(email, old)
\* fails
C21_ChangePassword ==
    [][outcome'.op = "change_password" =>
        LET email == outcome'.email
            old == outcome'.old_password
            new == outcome'.new_password
            verified == /\ email \in DOMAIN users
                        /\ VerifyPassword(old, users[email].password_hash)
        IN  /\ outcome'.success = verified
            /\ ~verified => users' = users
            /\ verified =>
                  /\ DOMAIN users' = DOMAIN users
                  /\ \A other \in DOMAIN users \ {email} : users'[other] = users[other]
                  /\ WithoutHash(users'[email]) = WithoutHash(users[email])
                  /\ VerifyPassword(new, users'[email].password_hash)
                  /\ new # old =>
                        /\ users'[email].password_hash # users[email].password_hash
                        /\ authenticate(users', email, new).ret[1]
                        /\ ~authenticate(users', email, old).ret[1]]_vars

\* a registered user's password was changed to a different one: the new one
\* authenticates, the old one does not
C21_Witness ==
    /\ outcome.op = "change_password"
    /\ outcome.email = UserA
    /\ outcome.success
    /\ outcome.new_password # outcome.old_password
    /\ authenticate(users, UserA, outcome.new_password).ret[1]
    /\ ~authenticate(users, UserA, outcome.old_password).ret[1]

\* C22: register_user with a registered email returns False and leaves every
\* account as it was; with a new email it adds exactly that account and
\* changes no other; the set of registered emails only grows, and each email
\* is the key of the one account that carries it
C22_RegisterUser ==
    /\ [][outcome'.op = "register_user" =>
            IF outcome'.email \in DOMAIN users
            THEN /\ ~outcome'.success
                 /\ users' = users
            ELSE /\ outcome'.success
                 /\ DOMAIN users' = DOMAIN users \cup {outcome'.email}
                 /\ \A other \in DOMAIN users : users'[other] = users[other]]_vars
    /\ [][DOMAIN users \subseteq DOMAIN users']_vars
    /\ [](\A email \in DOMAIN users : users[email].email = email)

\* a registration was refused for the email of an account whose password,
\* name, profile and statistics had been changed since it registered
C22_Witness ==
    /\ outcome.op = "register_user"
    /\ outcome.email = UserA
    /\ ~outcome.success
    /\ users[UserA].name = "Suzuki"
    /\ users[UserA].stats.total_analyses > 0
    /\ users[UserA].password_hash.digest[1] = AdminPassword
====
